---- MODULE Spec2Model ----
(***************************************************************************)
(* A model of ezdxf/dxf2html.py: the renderer that turns a parsed DXF      *)
(* drawing (sections, tables, block layouts, entities, tag records) into   *)
(* one HTML page.                                                          *)
(*                                                                         *)
(* Text is modelled as a sequence of tokens.  Every character that comes   *)
(* from the drawing (or from a conversion of a drawing value) is a token   *)
(* of its own; the literal text of a template is cut into tokens at its    *)
(* replacement fields and line ends, so str.format is concatenation.       *)
(* A Python call either returns text or raises: a result is a record       *)
(* [exc, html] and an exception passes through every caller, as no         *)
(* function of the file has a try statement.                               *)
(***************************************************************************)
EXTENDS Integers, Sequences, FiniteSets, TLC

(* ------------------------------ bounds --------------------------------- *)
MaxSections == 2
MaxTags == 2
MaxVars == 2
MaxBlocks == 2
MaxEntities == 2
MaxCode == 1071

(* --------------------------- results and text -------------------------- *)
NoExc == "none"
Ok(h) == [exc |-> NoExc, html |-> h]
Raise(e) == [exc |-> e, html |-> <<>>]

NL == "\n"

RECURSIVE Flatten(_)
Flatten(ss) == IF ss = <<>> THEN <<>> ELSE Head(ss) \o Flatten(Tail(ss))

\* sep.join(parts)
RECURSIVE Join(_, _)
Join(sep, parts) ==
    IF parts = <<>> THEN <<>>
    ELSE IF Len(parts) = 1 THEN parts[1]
    ELSE parts[1] \o sep \o Join(sep, Tail(parts))

\* a call that returned text h, and one that raised e
\* (Bind: the caller goes on with the text, or the exception passes through)
Bind(r, F(_)) == IF r.exc # NoExc THEN r ELSE Ok(F(r.html))
Bind2(r1, r2, F(_, _)) ==
    IF r1.exc # NoExc THEN r1
    ELSE IF r2.exc # NoExc THEN r2
    ELSE Ok(F(r1.html, r2.html))
Bind3(r1, r2, r3, F(_, _, _)) ==
    IF r1.exc # NoExc THEN r1
    ELSE IF r2.exc # NoExc THEN r2
    ELSE IF r3.exc # NoExc THEN r3
    ELSE Ok(F(r1.html, r2.html, r3.html))

\* the evaluation of a generator or list comprehension of calls inside
\* sep.join: the first call that raises ends it
FirstRaised(rs) ==
    rs[CHOOSE k \in 1..Len(rs) :
           /\ rs[k].exc # NoExc
           /\ \A j \in 1..(k - 1) : rs[j].exc = NoExc]

JoinResults(sep, rs) ==
    IF \A i \in 1..Len(rs) : rs[i].exc = NoExc
    THEN Ok(Join(sep, [i \in 1..Len(rs) |-> rs[i].html]))
    ELSE FirstRaised(rs)

DigitChars == <<"0", "1", "2", "3", "4", "5", "6", "7", "8", "9">>

RECURSIVE NatToStr(_)
NatToStr(n) ==
    IF n < 10 THEN <<DigitChars[n + 1]>>
    ELSE NatToStr(n \div 10) \o <<DigitChars[(n % 10) + 1]>>

\* str(n) of an int, as "{}".format(n) and ustr(n) give it
IntToStr(n) == IF n < 0 THEN <<"-">> \o NatToStr(-n) ELSE NatToStr(n)

LowerChars == <<"a", "b", "c", "d", "e", "f", "g", "h", "i", "j", "k", "l", "m",
                "n", "o", "p", "q", "r", "s", "t", "u", "v", "w", "x", "y", "z">>
UpperChars == <<"A", "B", "C", "D", "E", "F", "G", "H", "I", "J", "K", "L", "M",
                "N", "O", "P", "Q", "R", "S", "T", "U", "V", "W", "X", "Y", "Z">>

upper_char(c) ==
    IF \E i \in 1..26 : LowerChars[i] = c
    THEN UpperChars[CHOOSE i \in 1..26 : LowerChars[i] = c]
    ELSE c

\* str.upper()
upper(s) == [i \in 1..Len(s) |-> upper_char(s[i])]

\* ezdxf.c23.ustr (str/unicode) of a tag or header value: a string is itself,
\* an int its decimal form, a float its shortest repr (whole part n, one
\* fraction digit d)
FloatToStr(v) == IntToStr(v.n) \o <<".">> \o <<DigitChars[v.d + 1]>>

ustr(v) ==
    CASE v.t = "str" -> v.s
      [] v.t = "int" -> IntToStr(v.n)
      [] v.t = "float" -> FloatToStr(v)

\* ustr(hdrvar.getpoint()): the str of a tuple of floats, "(1.0, 2.0)"
PointToStr(p) ==
    <<"(">> \o Join(<<",", " ">>, [i \in 1..Len(p) |-> FloatToStr(p[i])]) \o <<")">>

\* ezdxf.c23.escape (html.escape / cgi.escape) on the three markup characters
escape_char(c) ==
    CASE c = "&" -> <<"&", "a", "m", "p", ";">>
      [] c = "<" -> <<"&", "l", "t", ";">>
      [] c = ">" -> <<"&", "g", "t", ";">>
      [] OTHER -> <<c>>

escape(s) == Flatten([i \in 1..Len(s) |-> escape_char(s[i])])

(* ------------------------- str.format of a text ------------------------ *)
\* template.format(*args) where the template is itself a computed text: the
\* braces in it are parsed again.  "{{" and "}}" are literal braces, "{}" is
\* the next positional argument, "{3}" the numbered one, "{name}" a keyword
\* (none is passed: KeyError), anything else a ValueError.
IsDigits(f) == f # <<>> /\ \A i \in 1..Len(f) : \E d \in 1..10 : DigitChars[d] = f[i]

RECURSIVE StrToNat(_)
StrToNat(f) ==
    IF f = <<>> THEN 0
    ELSE 10 * StrToNat(SubSeq(f, 1, Len(f) - 1))
         + ((CHOOSE d \in 1..10 : DigitChars[d] = f[Len(f)]) - 1)

\* the "}" that ends the field opened at i, 0 if there is none
FieldEnd(tpl, i) ==
    IF \E j \in (i + 1)..Len(tpl) : tpl[j] = "}"
    THEN CHOOSE k \in (i + 1)..Len(tpl) :
             /\ tpl[k] = "}"
             /\ \A m \in (i + 1)..(k - 1) : tpl[m] # "}"
    ELSE 0

\* numbering: "none" before the first field, then "auto" or "manual"
RECURSIVE FormatFrom(_, _, _, _, _, _)
RECURSIVE FormatField(_, _, _, _, _, _, _)

\* the replacement field tpl[i+1..j-1]
FormatField(tpl, field, j, numbering, auto, args, acc) ==
    IF \E m \in 1..Len(field) : field[m] = "{" THEN Raise("ValueError")
    ELSE IF field = <<>> THEN
        IF numbering = "manual" THEN Raise("ValueError")
        ELSE IF auto + 1 > Len(args) THEN Raise("IndexError")
        ELSE FormatFrom(tpl, j + 1, "auto", auto + 1, args, acc \o args[auto + 1])
    ELSE IF IsDigits(field) THEN
        IF numbering = "auto" THEN Raise("ValueError")
        ELSE IF StrToNat(field) + 1 > Len(args) THEN Raise("IndexError")
        ELSE FormatFrom(tpl, j + 1, "manual", auto, args, acc \o args[StrToNat(field) + 1])
    ELSE Raise("KeyError")

FormatFrom(tpl, i, numbering, auto, args, acc) ==
    IF i > Len(tpl) THEN Ok(acc)
    ELSE IF tpl[i] = "{" THEN
        IF i < Len(tpl) /\ tpl[i + 1] = "{"
        THEN FormatFrom(tpl, i + 2, numbering, auto, args, Append(acc, "{"))
        ELSE IF FieldEnd(tpl, i) = 0 THEN Raise("ValueError")
        ELSE FormatField(tpl, SubSeq(tpl, i + 1, FieldEnd(tpl, i) - 1), FieldEnd(tpl, i),
                         numbering, auto, args, acc)
    ELSE IF tpl[i] = "}" THEN
        IF i < Len(tpl) /\ tpl[i + 1] = "}"
        THEN FormatFrom(tpl, i + 2, numbering, auto, args, Append(acc, "}"))
        ELSE Raise("ValueError")
    ELSE FormatFrom(tpl, i + 1, numbering, auto, args, Append(acc, tpl[i]))

Format(tpl, args) == FormatFrom(tpl, 1, "none", 0, args, <<>>)

(* ------------------------------ constants ------------------------------ *)
_HANDLE_CODES == {5, 105} \cup (320..329)
HANDLE_DEFINITIONS == _HANDLE_CODES

\* (mutant) the range of the handle links started one code early
_HANDLE_POINTERS_from_329 == (329..369) \cup {480, 481, 1005}

_HANDLE_POINTERS == (330..369) \cup {480, 481, 1005}
HANDLE_LINKS == _HANDLE_POINTERS

GENERAL_MARKER == 0
SUBCLASS_MARKER == 100
APP_DATA_MARKER == 102
EXT_DATA_MARKER == 1001
GROUP_MARKERS == {GENERAL_MARKER, SUBCLASS_MARKER, APP_DATA_MARKER, EXT_DATA_MARKER}

\* tokens of the templates that the page's readers look for
ROW_OPEN == "<div class=\"dxf-tag\">"
ROW_CLOSE == "</span></div>"
LINK_CLOSE == "</a></div>"
SPAN_CODE == "<span class=\"tag-code\">"
CLASS_CODE == " class=\"tag-code\">"
SPAN_TYPE == "</span> <span class=\"var-type\">"
SPAN_VALUE == "</span> <span class=\"tag-value\">"
ATTR_ID == "id=\""
ATTR_HREF == "href=\"#"
QUOTE == "\""
QUOTE_GT == "\">"
QUOTE_SP_GT == "\" >"
LI_OPEN == "<li><a "
MARKER_OPEN == "<div class=\"tag-group-marker\">"
DIV_CLOSE == "</div>"
H2_OPEN == "<h2>"
H2_CLOSE == "</h2>"
H3_OPEN == "<h3>"
H3_CLOSE == "</h3>"
ENTITY_OPEN == "<div class=\"dxf-entity\">"
BLOCK_OPEN == "<div class=\"dxf-block\">"
SECTION_H2 == "<h2>SECTION: "

MARKER_TEMPLATE(tag) == <<MARKER_OPEN>> \o tag \o <<DIV_CLOSE>>

TAG_TEMPLATE(code, type, value) ==
    <<ROW_OPEN, SPAN_CODE>> \o code \o <<SPAN_TYPE>> \o type
    \o <<SPAN_VALUE>> \o value \o <<ROW_CLOSE>>

TAG_TEMPLATE_HANDLE_DEF(code, type, value) ==
    <<ROW_OPEN, "<span ", ATTR_ID>> \o value \o <<QUOTE, CLASS_CODE>>
    \o code \o <<SPAN_TYPE>> \o type \o <<SPAN_VALUE>> \o value \o <<ROW_CLOSE>>

TAG_TEMPLATE_HANDLE_LINK(code, type, value) ==
    <<ROW_OPEN, SPAN_CODE>> \o code \o <<" ">> \o type
    \o <<"</span> <a class=\"tag-value\" ", ATTR_HREF>> \o value \o <<QUOTE_GT>>
    \o value \o <<LINK_CLOSE>>

ENTITY_TEMPLATE(name, tags) ==
    <<ENTITY_OPEN, H3_OPEN>> \o name \o <<H3_CLOSE, NL>> \o tags \o <<NL, DIV_CLOSE>>

TOC_ENTRY_TPL(link, name) ==
    <<LI_OPEN, ATTR_HREF>> \o link \o <<QUOTE_SP_GT>> \o name \o <<"</a></li>">>

TOC_TPL(entries) ==
    <<"<h2>Table of Contents</h2>", NL, "<ul>", NL>> \o entries \o <<NL, "</ul>">>

HTML_TEMPLATE(name, toc, dxf_file) ==
    <<"<!DOCTYPE html>", NL, "<html>", NL, "<head>", NL, "<meta charset=\"utf-8\">", NL,
      "<link rel=\"stylesheet\" href=\"dxf2html.css\">", NL,
      "<script src=\"dxf2html.js\"></script>", NL, "<title>">>
    \o name \o <<".dxf</title>", NL, "</head>", NL, "<body>", NL, "<h1>DXF-FILE: ">>
    \o name \o <<".dxf</h1>", NL, "<div id=\"toc\">", NL>> \o toc
    \o <<NL, "<div>", NL, "<div id=\"dxf-file\">", NL>> \o dxf_file
    \o <<NL, "</div>", NL, "</body>", NL>>

SECTION_ID(index) == <<"section_">> \o IntToStr(index)

\* the names section2html compares with
NAME_HEADER == <<"h", "e", "a", "d", "e", "r">>
NAME_CLASSES == <<"c", "l", "a", "s", "s", "e", "s">>
NAME_OBJECTS == <<"o", "b", "j", "e", "c", "t", "s">>
NAME_ENTITIES == <<"e", "n", "t", "i", "t", "i", "e", "s">>
NAME_TABLES == <<"t", "a", "b", "l", "e", "s">>
NAME_BLOCKS == <<"b", "l", "o", "c", "k", "s">>

(* ------------------------------ tag types ------------------------------ *)
\* ezdxf.tags.tag_type: the value type of a group code, "undefined" for a
\* code the registry does not hold
tag_type(code) ==
    IF code \in (0..9) \cup (100..105) \cup (300..369) \cup (390..399)
                \cup (410..419) \cup (430..439) \cup (470..481) \cup (999..1009)
    THEN "ustr"
    ELSE IF code \in (10..59) \cup (110..149) \cup (210..239) \cup (460..469)
                     \cup (1010..1059)
    THEN "float"
    ELSE IF code \in (60..79) \cup (90..99) \cup (170..179) \cup (270..299)
                     \cup (370..389) \cup (400..409) \cup (420..429) \cup (440..459)
                     \cup (1060..1071)
    THEN "int"
    ELSE "undefined"

TAG_TYPES ==
    [k \in {"int", "float", "ustr"} |->
        CASE k = "int" -> <<"<", "i", "n", "t", ">">>
          [] k = "float" -> <<"<", "f", "l", "o", "a", "t", ">">>
          [] k = "ustr" -> <<"<", "s", "t", "r", ">">>]

\* (mutant) a lookup with a default instead of a failing one
tag_type_str_default(code) ==
    IF tag_type(code) \in DOMAIN TAG_TYPES
    THEN Ok(TAG_TYPES[tag_type(code)])
    ELSE Ok(TAG_TYPES["ustr"])

tag_type_str(code) ==
    IF tag_type(code) \in DOMAIN TAG_TYPES
    THEN Ok(TAG_TYPES[tag_type(code)])
    ELSE Raise("KeyError")

(* ------------------------------ renderers ------------------------------ *)
var2str(hdrvar) ==
    IF hdrvar.ispoint THEN PointToStr(hdrvar.point) ELSE ustr(hdrvar.value)

POINT_2D == <<"<", "p", "o", "i", "n", "t", " ", "2", "D", ">">>
POINT_3D == <<"<", "p", "o", "i", "n", "t", " ", "3", "D", ">">>

\* ("<point 2D>", "<point 3D>")[dim], a negative index counting from the end
point_label(dim) ==
    IF dim \in {0, -2} THEN Ok(POINT_2D)
    ELSE IF dim \in {1, -1} THEN Ok(POINT_3D)
    ELSE Raise("IndexError")

vartype(hdrvar) ==
    IF hdrvar.ispoint THEN point_label(Len(hdrvar.point) - 2)
    ELSE tag_type_str(hdrvar.code)

\* (mutant) the row shows the variable's tag code instead of its name
varstring_code(item) ==
    Bind(vartype(item.var),
         LAMBDA type : TAG_TEMPLATE(IntToStr(item.var.code), escape(type),
                                    escape(var2str(item.var))))

\* one element of the list comprehension of hdrvars2html
varstring(item) ==
    Bind(vartype(item.var),
         LAMBDA type : TAG_TEMPLATE(item.name, escape(type), escape(var2str(item.var))))

hdrvars2html(hdrvars) ==
    Bind(JoinResults(<<NL>>, [i \in 1..Len(hdrvars) |-> varstring(hdrvars[i])]),
         LAMBDA varstrings :
             <<"<div id=\"dxf-header\" class=\"dxf-header\">", NL>>
             \o varstrings \o <<NL, DIV_CLOSE>>)

\* (mutant) the two handle templates taken for each other
tag_tpl_swapped(code) ==
    IF code \in HANDLE_DEFINITIONS THEN "TAG_TEMPLATE_HANDLE_LINK"
    ELSE IF code \in HANDLE_LINKS THEN "TAG_TEMPLATE_HANDLE_DEF"
    ELSE "TAG_TEMPLATE"

\* the template tag2html picks for a code
tag_tpl(code) ==
    IF code \in HANDLE_DEFINITIONS THEN "TAG_TEMPLATE_HANDLE_DEF"
    ELSE IF code \in HANDLE_LINKS THEN "TAG_TEMPLATE_HANDLE_LINK"
    ELSE "TAG_TEMPLATE"

\* tpl.format(code=, value=, type=)
tpl_format(tpl, code, type, value) ==
    CASE tpl = "TAG_TEMPLATE_HANDLE_DEF" -> TAG_TEMPLATE_HANDLE_DEF(code, type, value)
      [] tpl = "TAG_TEMPLATE_HANDLE_LINK" -> TAG_TEMPLATE_HANDLE_LINK(code, type, value)
      [] tpl = "TAG_TEMPLATE" -> TAG_TEMPLATE(code, type, value)

tag2html(tag) ==
    Bind(tag_type_str(tag.code),
         LAMBDA type : tpl_format(tag_tpl(tag.code), IntToStr(tag.code), escape(type),
                                  escape(ustr(tag.value))))

\* (mutant) the membership test the wrong way round
group_marker_inverted(tag, tag_html) ==
    IF tag.code \in GROUP_MARKERS THEN tag_html ELSE MARKER_TEMPLATE(tag_html)

group_marker(tag, tag_html) ==
    IF tag.code \notin GROUP_MARKERS THEN tag_html ELSE MARKER_TEMPLATE(tag_html)

\* one element of the generator of tags2html
tag_string(tag) == Bind(tag2html(tag), LAMBDA tag_html : group_marker(tag, tag_html))

tags2html(tags) ==
    Bind(JoinResults(<<NL>>, [i \in 1..Len(tags) |-> tag_string(tags[i])]),
         LAMBDA tag_strings :
             <<"<div class=\"dxf-tags\">", NL>> \o tag_strings \o <<NL, DIV_CLOSE>>)

entity2html(entity) ==
    Bind(tags2html(entity.tags), LAMBDA tags : ENTITY_TEMPLATE(entity.dxftype, tags))

entities2html(entities) ==
    Bind(JoinResults(<<NL>>, [i \in 1..Len(entities) |-> entity2html(entities[i])]),
         LAMBDA entity_strings :
             <<"<div class=\"dxf-entities\">", NL>> \o entity_strings \o <<NL, DIV_CLOSE>>)

create_table_navigation(table_section) == <<>>

TABLE_HEADER == <<"T", "A", "B", "L", "E", " ", "H", "E", "A", "D", "E", "R">>

table2html(table, navigation) ==
    Bind2(tags2html(table.table_header), entities2html(table.entries),
          LAMBDA tags, entries :
              <<BLOCK_OPEN, NL, H2_OPEN>> \o upper(table.name)
              \o <<H2_CLOSE, NL>> \o navigation \o <<NL>>
              \o ENTITY_TEMPLATE(TABLE_HEADER, tags) \o <<NL>>
              \o entries \o <<NL, DIV_CLOSE>>)

tables2html(tables) ==
    Bind(JoinResults(<<NL>>, [i \in 1..Len(tables) |->
                                  table2html(tables[i], create_table_navigation(tables))]),
         LAMBDA tables_html_strings :
             <<"<div id=\"dxf-tables\" class=\"dxf-tables\">">>
             \o tables_html_strings \o <<DIV_CLOSE>>)

\* (mutant) the end entity put before the contained entities
block2html_endblk_first(block_layout) ==
    Bind3(entity2html(block_layout.block), entities2html(block_layout.entities),
          entity2html(block_layout.endblk),
          LAMBDA block_html, entities_html, endblk_html :
              <<BLOCK_OPEN, NL, H2_OPEN>> \o block_layout.name
              \o <<H2_CLOSE, NL>> \o block_html \o <<NL>> \o endblk_html
              \o <<NL>> \o entities_html \o <<NL, DIV_CLOSE>>)

block2html(block_layout) ==
    Bind3(entity2html(block_layout.block), entities2html(block_layout.entities),
          entity2html(block_layout.endblk),
          LAMBDA block_html, entities_html, endblk_html :
              <<BLOCK_OPEN, NL, H2_OPEN>> \o block_layout.name
              \o <<H2_CLOSE, NL>> \o block_html \o <<NL>> \o entities_html
              \o <<NL>> \o endblk_html \o <<NL, DIV_CLOSE>>)

blocks2html(blocks) ==
    Bind(JoinResults(<<NL>>, [i \in 1..Len(blocks) |-> block2html(blocks[i])]),
         LAMBDA block_strings :
             <<"<div id=\"dxf-blocks\" class=\"dxf-blocks\">", NL>>
             \o block_strings \o <<NL, DIV_CLOSE>>)

\* (mutant) the previous and the next anchor taken for each other
create_section_html_template_swapped(name, index) ==
    <<"<div ", ATTR_ID>> \o SECTION_ID(index) \o <<QUOTE, " class=\"dxf-section\">", SECTION_H2>>
    \o upper(name) \o <<H2_CLOSE, NL, "<div><a ", ATTR_HREF>> \o SECTION_ID(index + 1)
    \o <<QUOTE_GT, "previous</a> <a ", ATTR_HREF>> \o SECTION_ID(index - 1)
    \o <<QUOTE_GT, "next</a></div>", NL, "{", "}", NL, DIV_CLOSE, NL>>

\* the text with its one "{}" field that section2html formats the body into
create_section_html_template(name, index) ==
    LET prev_id == SECTION_ID(index - 1)
        this_id == SECTION_ID(index)
        next_id == SECTION_ID(index + 1)
    IN <<"<div ", ATTR_ID>> \o this_id \o <<QUOTE, " class=\"dxf-section\">", SECTION_H2>>
       \o upper(name) \o <<H2_CLOSE, NL, "<div><a ", ATTR_HREF>> \o prev_id
       \o <<QUOTE_GT, "previous</a> <a ", ATTR_HREF>> \o next_id
       \o <<QUOTE_GT, "next</a></div>", NL, "{", "}", NL, DIV_CLOSE, NL>>

\* the renderer the section's name selects, applied to what it renders
section_body(section) ==
    IF section.name = NAME_HEADER THEN hdrvars2html(section.hdrvars)
    ELSE IF section.name \in {NAME_CLASSES, NAME_OBJECTS, NAME_ENTITIES}
    THEN entities2html(section.entities)
    ELSE IF section.name = NAME_TABLES THEN tables2html(section.tables)
    ELSE IF section.name = NAME_BLOCKS THEN blocks2html(section.blocks)
    ELSE tags2html(section.tags)

\* the body is rendered first, then formatted into the template
format_body(section_template, body) ==
    IF body.exc # NoExc THEN body ELSE Format(section_template, <<body.html>>)

section2html(section, section_template) ==
    format_body(section_template, section_body(section))

\* (mutant) the entry numbered from one
toc_entry_from_one(index, section) ==
    TOC_ENTRY_TPL(SECTION_ID(index + 1), upper(section.name))

toc_entry(index, section) ==
    TOC_ENTRY_TPL(SECTION_ID(index), upper(section.name))

\* the last place of character c in s, 0 if it has none
rfind(s, c) ==
    IF \E i \in 1..Len(s) : s[i] = c
    THEN CHOOSE k \in 1..Len(s) : s[k] = c /\ \A m \in (k + 1)..Len(s) : s[m] # c
    ELSE 0

\* os.path.basename: what follows the last "/"
basename(path) == SubSeq(path, rfind(path, "/") + 1, Len(path))

\* os.path.splitext(filename)[0]: cut at the last "." unless only dots lead to it
splitext_root(filename) ==
    IF \E m \in 1..(rfind(filename, ".") - 1) : filename[m] # "."
    THEN SubSeq(filename, 1, rfind(filename, ".") - 1)
    ELSE filename

UNKNOWN == <<"u", "n", "k", "n", "o", "w", "n">>

get_name(d) ==
    IF d.filename.none THEN UNKNOWN ELSE splitext_root(basename(d.filename.path))

(* ------------------------------- drawings ------------------------------ *)
StrValue(s) == [t |-> "str", s |-> s, n |-> 0, d |-> 0]
IntValue(n) == [t |-> "int", s |-> <<>>, n |-> n, d |-> 0]
FloatValue(n, d) == [t |-> "float", s |-> <<>>, n |-> n, d |-> d]

Tag(code, value) == [code |-> code, value |-> value]
Entity(dxftype, tags) == [dxftype |-> dxftype, tags |-> tags]
Scalar(code, value) == [ispoint |-> FALSE, point |-> <<>>, value |-> value, code |-> code]
Point(code, point) == [ispoint |-> TRUE, point |-> point, value |-> IntValue(0), code |-> code]
Section(name, hdrvars, entities, tables, blocks, tags) ==
    [name |-> name, hdrvars |-> hdrvars, entities |-> entities, tables |-> tables,
     blocks |-> blocks, tags |-> tags]

\* all sequences over S of length at most n
SeqsUpTo(S, n) == UNION {[1..k -> S] : k \in 0..n}

\* a group code of each class, and 80, which the registry does not hold
TagCodes == {0, 1, 5, 70, 80, 105, 330, 1001, 1005}
HANDLE_1F == <<"1", "F">>
MARKUP == <<"a", "<", "&", ">">>

TagPool ==
    {Tag(c, StrValue(HANDLE_1F)) : c \in TagCodes}
    \cup {Tag(c, v) : c \in {1, 5, 330},
                      v \in {StrValue(MARKUP), IntValue(7), FloatValue(1, 5)}}

LINE == Entity(<<"L", "I", "N", "E">>,
               <<Tag(5, StrValue(<<"2", "A">>)), Tag(10, FloatValue(1, 0))>>)
CIRCLE == Entity(<<"C", "I", "R", "C", "L", "E">>,
                 <<Tag(0, StrValue(<<"C", "I", "R", "C", "L", "E">>)),
                   Tag(330, StrValue(<<"2", "A">>))>>)
UNDEFINED_CODE == Entity(<<"X">>, <<Tag(1, StrValue(<<"x">>)), Tag(80, IntValue(7))>>)
BLOCK == Entity(<<"B", "L", "O", "C", "K">>, <<Tag(0, StrValue(<<"B", "L", "O", "C", "K">>))>>)
ENDBLK == Entity(<<"E", "N", "D", "B", "L", "K">>,
                 <<Tag(0, StrValue(<<"E", "N", "D", "B", "L", "K">>))>>)

BlockLayout(name, block, entities, endblk) ==
    [name |-> name, block |-> block, entities |-> entities, endblk |-> endblk]

BlockPool ==
    {BlockLayout(<<"a">>, BLOCK, es, ENDBLK) : es \in SeqsUpTo({LINE, CIRCLE}, MaxEntities)}
    \cup {BlockLayout(<<"b">>, BLOCK, <<>>, ENDBLK),
          BlockLayout(<<"<">>, BLOCK, <<>>, ENDBLK),
          BlockLayout(<<"a">>, UNDEFINED_CODE, <<LINE>>, ENDBLK),
          BlockLayout(<<"a">>, BLOCK, <<LINE, UNDEFINED_CODE>>, ENDBLK),
          BlockLayout(<<"a">>, BLOCK, <<LINE>>, UNDEFINED_CODE)}

VarNames == {<<"$", "A">>, <<"$", "B">>, <<"<">>}
VarPool ==
    {Scalar(1, StrValue(<<"A", "C">>)), Scalar(1, StrValue(MARKUP)),
     Scalar(70, IntValue(7)), Scalar(40, FloatValue(1, 5)),
     Scalar(5, StrValue(HANDLE_1F)), Scalar(80, StrValue(<<"x">>)),
     Point(10, <<FloatValue(1, 0), FloatValue(2, 5)>>),
     Point(80, <<FloatValue(0, 0), FloatValue(0, 0), FloatValue(0, 0)>>)}

\* an ordered mapping: no name twice
HdrVars ==
    {h \in SeqsUpTo([name : VarNames, var : VarPool], MaxVars) :
        \A i, j \in 1..Len(h) : i # j => h[i].name # h[j].name}

LAYER_TABLE ==
    [name |-> <<"l", "a", "y", "e", "r">>,
     table_header |-> <<Tag(0, StrValue(<<"T", "A", "B", "L", "E">>)),
                        Tag(5, StrValue(<<"8">>))>>,
     entries |-> <<Entity(<<"L", "A", "Y", "E", "R">>, <<Tag(330, StrValue(<<"8">>))>>)>>]
UNDEFINED_TABLE ==
    [name |-> <<"l", "t", "y", "p", "e">>,
     table_header |-> <<Tag(80, IntValue(7))>>,
     entries |-> <<>>]

NAME_ACDSDATA == <<"a", "c", "d", "s", "d", "a", "t", "a">>

HeaderSection(hdrvars) == Section(NAME_HEADER, hdrvars, <<>>, <<>>, <<>>, <<>>)
EntitySection(name, entities) == Section(name, <<>>, entities, <<>>, <<>>, <<>>)
TablesSection(tables) == Section(NAME_TABLES, <<>>, <<>>, tables, <<>>, <<>>)
BlocksSection(blocks) == Section(NAME_BLOCKS, <<>>, <<>>, <<>>, blocks, <<>>)
DefaultSection(name, tags) == Section(name, <<>>, <<>>, <<>>, <<>>, tags)

SectionPool ==
    {HeaderSection(<<[name |-> <<"$", "A">>, var |-> Scalar(1, StrValue(<<"A", "C">>))]>>),
     EntitySection(NAME_CLASSES, <<>>),
     EntitySection(NAME_OBJECTS, <<CIRCLE>>),
     EntitySection(NAME_ENTITIES, <<LINE>>),
     EntitySection(NAME_ENTITIES, <<UNDEFINED_CODE>>),
     TablesSection(<<LAYER_TABLE>>),
     TablesSection(<<LAYER_TABLE, UNDEFINED_TABLE>>),
     BlocksSection(<<BlockLayout(<<"a">>, BLOCK, <<LINE>>, ENDBLK)>>),
     DefaultSection(NAME_ACDSDATA, <<Tag(0, StrValue(<<"x">>)), Tag(70, IntValue(7))>>),
     DefaultSection(<<"{", "{", "x">>, <<Tag(1, StrValue(<<"x">>))>>),
     DefaultSection(<<"{", "x", "}">>, <<Tag(1, StrValue(<<"x">>))>>)}

None == [none |-> TRUE, path |-> <<>>]
Filename(path) == [none |-> FALSE, path |-> path]
Drawing(filename, sections) == [filename |-> filename, sections |-> sections]

\* the drawings rendered: any sections in any order, and one section with
\* every content of its kind
Drawings ==
    {Drawing(f, ss) : f \in {None, Filename(<<"d", ".", "x", "/", "a", ".", "d", "x", "f">>)},
                      ss \in SeqsUpTo(SectionPool, MaxSections)}
    \cup {Drawing(None, <<DefaultSection(NAME_ACDSDATA, tags)>>) :
              tags \in SeqsUpTo(TagPool, MaxTags)}
    \cup {Drawing(None, <<HeaderSection(h)>>) : h \in HdrVars}
    \cup {Drawing(None, <<BlocksSection(bs)>>) : bs \in SeqsUpTo(BlockPool, MaxBlocks)}

(* -------------------------------- state -------------------------------- *)
VARIABLES
    dwg,            \* the drawing passed to dxf2html
    pc,             \* where dxf2html is: a loop, a return, "done" or "raised"
    index,          \* the loops' enumerate index
    sections_html,  \* sections2html's list
    toc_entries,    \* sections_toc_as_html's list
    dxf_file,       \* dxf2html's local: sections2html's return value
    toc,            \* dxf2html's local: sections_toc_as_html's return value
    page,           \* what dxf2html returned, <<>> before it returns
    exc             \* the exception that left dxf2html, NoExc if none

vars == <<dwg, pc, index, sections_html, toc_entries, dxf_file, toc, page, exc>>

Init ==
    /\ dwg \in Drawings
    /\ pc = "sections2html"
    /\ index = 0
    /\ sections_html = <<>>
    /\ toc_entries = <<>>
    /\ dxf_file = <<>>
    /\ toc = <<>>
    /\ page = <<>>
    /\ exc = NoExc

\* one turn of the loop of sections2html; an exception of section2html ends
\* sections2html and dxf2html
sections2html_loop ==
    /\ pc = "sections2html"
    /\ index < Len(dwg.sections)
    /\ \E section \in {dwg.sections[index + 1]} :
       \E section_template \in {create_section_html_template(section.name, index)} :
       \E r \in {section2html(section, section_template)} :
          IF r.exc = NoExc
          THEN /\ sections_html' = Append(sections_html, r.html)
               /\ index' = index + 1
               /\ UNCHANGED <<pc, exc>>
          ELSE /\ pc' = "raised"
               /\ exc' = r.exc
               /\ UNCHANGED <<sections_html, index>>
    /\ UNCHANGED <<dwg, toc_entries, dxf_file, toc, page>>

sections2html_return ==
    /\ pc = "sections2html"
    /\ index = Len(dwg.sections)
    /\ dxf_file' = <<"<div class=\"dxf-sections\">", NL>>
                   \o Join(<<NL>>, sections_html) \o <<NL, DIV_CLOSE>>
    /\ pc' = "sections_toc_as_html"
    /\ index' = 0
    /\ UNCHANGED <<dwg, sections_html, toc_entries, toc, page, exc>>

sections_toc_as_html_loop ==
    /\ pc = "sections_toc_as_html"
    /\ index < Len(dwg.sections)
    /\ toc_entries' = Append(toc_entries, toc_entry(index, dwg.sections[index + 1]))
    /\ index' = index + 1
    /\ UNCHANGED <<dwg, pc, sections_html, dxf_file, toc, page, exc>>

sections_toc_as_html_return ==
    /\ pc = "sections_toc_as_html"
    /\ index = Len(dwg.sections)
    /\ toc' = TOC_TPL(Join(<<NL>>, toc_entries))
    /\ pc' = "return"
    /\ UNCHANGED <<dwg, index, sections_html, toc_entries, dxf_file, page, exc>>

dxf2html_return ==
    /\ pc = "return"
    /\ page' = HTML_TEMPLATE(get_name(dwg), toc, dxf_file)
    /\ pc' = "done"
    /\ UNCHANGED <<dwg, index, sections_html, toc_entries, dxf_file, toc, exc>>

Next ==
    \/ sections2html_loop
    \/ sections2html_return
    \/ sections_toc_as_html_loop
    \/ sections_toc_as_html_return
    \/ dxf2html_return

Spec == Init /\ [][Next]_vars

(* --------------------------- reading the page -------------------------- *)
\* the places of token tok in text s, in order
Positions(s, tok) == SelectSeq([i \in 1..Len(s) |-> i], LAMBDA i : s[i] = tok)

Count(s, tok) == Len(Positions(s, tok))

LinesAt(s, p) == [k \in 1..(Len(p) - 1) |-> SubSeq(s, p[k] + 1, p[k + 1] - 1)]

\* s.split("\n")
Lines(s) == LinesAt(s, <<0>> \o Positions(s, NL) \o <<Len(s) + 1>>)

\* the text from place p up to the first token of stops
Until(s, p, stops) ==
    SubSeq(s, p, (CHOOSE q \in p..(Len(s) + 1) :
                      /\ q = Len(s) + 1 \/ s[q] \in stops
                      /\ \A m \in p..(q - 1) : s[m] \notin stops) - 1)

ValuesAt(s, p, stops) == [k \in 1..Len(p) |-> Until(s, p[k] + 1, stops)]

\* the values of every attribute attr (ATTR_ID, ATTR_HREF) of the text, in order
AttrValues(s, attr) == ValuesAt(s, Positions(s, attr), {QUOTE, QUOTE_GT, QUOTE_SP_GT})

\* the text that follows the one token open in s, up to a token of stops
After(s, open, stops) == Until(s, Positions(s, open)[1] + 1, stops)

Rendered == 1..Len(sections_html)
SectionLines(i) == Lines(sections_html[i])
SectionId(i) == AttrValues(SectionLines(i)[1], ATTR_ID)[1]

DispatchedNames ==
    {NAME_HEADER, NAME_CLASSES, NAME_OBJECTS, NAME_ENTITIES, NAME_TABLES, NAME_BLOCKS}
IsDefault(section) == section.name \notin DispatchedNames

\* the rendered sections that went through the generic tag-stream renderer,
\* and the row of tag k of such a section
DefaultRendered == {i \in Rendered : IsDefault(dwg.sections[i])}
Row(i, k) == SectionLines(i)[3 + k]
TagAt(i, k) == dwg.sections[i].tags[k]
RowsOf(i) == 1..Len(dwg.sections[i].tags)

HeaderRendered == {i \in Rendered : dwg.sections[i].name = NAME_HEADER}
VarAt(i, k) == dwg.sections[i].hdrvars[k]
VarsOf(i) == 1..Len(dwg.sections[i].hdrvars)

EscapedValue(tag) == escape(ustr(tag.value))

(* -------------------------------- claims ------------------------------- *)
\* the renderer the claimed dispatch table gives a kind
ClaimedBody(section) ==
    CASE section.name = NAME_HEADER -> hdrvars2html(section.hdrvars)
      [] section.name = NAME_CLASSES -> entities2html(section.entities)
      [] section.name = NAME_OBJECTS -> entities2html(section.entities)
      [] section.name = NAME_ENTITIES -> entities2html(section.entities)
      [] section.name = NAME_TABLES -> tables2html(section.tables)
      [] section.name = NAME_BLOCKS -> blocks2html(section.blocks)
      [] OTHER -> tags2html(section.tags)

BodyLines(i) == SubSeq(SectionLines(i), 3, Len(SectionLines(i)) - 2)

\* the dispatch table alone, on the sections that rendered
C1_BodyByKind ==
    \A i \in Rendered :
        /\ BodyLines(i) = Lines(ClaimedBody(dwg.sections[i]).html)
        /\ SectionId(i) = SECTION_ID(i - 1)

\* C1: section2html picks the body renderer by the section's kind (header ->
\* header renderer on the header variables; classes, objects, entities ->
\* entity-sequence renderer; tables -> table renderer; blocks -> block
\* renderer; any other kind -> tag-stream renderer on the raw tags), injects
\* that body into the section's wrapper, and never fails on the kind itself:
\* it raises only when the chosen renderer raises.
C1_DispatchNeverFailsOnKind ==
    /\ C1_BodyByKind
    /\ pc = "raised" => ClaimedBody(dwg.sections[index + 1]).exc # NoExc

ClaimedDefinitionCodes == {5, 105} \cup (320..329)
ClaimedLinkCodes == (330..369) \cup {480, 481, 1005}
ClaimedMarkerCodes == {0, 100, 102, 1001}

\* C2: a row of tags2html for a handle-definition code (5, 105, 320..329)
\* carries an anchor id equal to the escaped value; for a handle-link code
\* (330..369, 480, 481, 1005) it is a hyperlink to "#" + escaped value whose
\* text is the escaped value; for any other code it has neither.
C2_HandleRows ==
    \A i \in DefaultRendered : \A k \in RowsOf(i) :
        IF TagAt(i, k).code \in ClaimedDefinitionCodes
        THEN AttrValues(Row(i, k), ATTR_ID) = <<EscapedValue(TagAt(i, k))>>
        ELSE IF TagAt(i, k).code \in ClaimedLinkCodes
        THEN /\ AttrValues(Row(i, k), ATTR_HREF) = <<EscapedValue(TagAt(i, k))>>
             /\ After(Row(i, k), QUOTE_GT, {LINK_CLOSE}) = EscapedValue(TagAt(i, k))
        ELSE Count(Row(i, k), ATTR_ID) = 0 /\ Count(Row(i, k), ATTR_HREF) = 0

\* a state in which the case of C2 has been rendered
C2_Witness ==
    /\ pc = "done"
    /\ \E i \in DefaultRendered :
        /\ dwg.sections[i].tags = <<Tag(5, StrValue(MARKUP)), Tag(330, StrValue(MARKUP))>>
        /\ AttrValues(Row(i, 1), ATTR_ID) = <<<<"a", "&", "l", "t", ";", "&", "a", "m", "p", ";",
                                                "&", "g", "t", ";">>>>
        /\ AttrValues(Row(i, 2), ATTR_HREF) = AttrValues(Row(i, 1), ATTR_ID)

TocEntries == SelectSeq(Lines(toc), LAMBDA l : Count(l, LI_OPEN) > 0)
Anchor(n) == <<"section_">> \o IntToStr(n)

\* C3: the table of contents has one entry per section, in section order;
\* entry i is labelled with the upper-cased kind of section i and targets
\* "section_<i>", the id of the wrapper of section i and of no other wrapper.
C3_TocMatchesSections ==
    pc \in {"return", "done"} =>
        /\ Len(TocEntries) = Len(dwg.sections)
        /\ Len(sections_html) = Len(dwg.sections)
        /\ \A i \in 1..Len(dwg.sections) :
            /\ AttrValues(TocEntries[i], ATTR_HREF) = <<Anchor(i - 1)>>
            /\ After(TocEntries[i], QUOTE_SP_GT, {"</a></li>"}) = upper(dwg.sections[i].name)
            /\ SectionId(i) = Anchor(i - 1)
            /\ \A j \in 1..Len(dwg.sections) : j # i => SectionId(j) # SectionId(i)

\* a state in which the case of C3 has been rendered
C3_Witness ==
    /\ pc = "done"
    /\ Len(dwg.sections) = 2
    /\ dwg.sections[1].name = NAME_TABLES
    /\ dwg.sections[2].name = NAME_HEADER
    /\ After(TocEntries[2], QUOTE_SP_GT, {"</a></li>"}) = <<"H", "E", "A", "D", "E", "R">>
    /\ AttrValues(TocEntries[2], ATTR_HREF) = <<<<"section_", "1">>>>

CodeText(row) == After(row, SPAN_CODE, {SPAN_TYPE})
TypeText(row) == After(row, SPAN_TYPE, {SPAN_VALUE})
ValueText(row) == After(row, SPAN_VALUE, {ROW_CLOSE})

ClaimedLabel(code) ==
    CASE tag_type(code) = "int" -> <<"<", "i", "n", "t", ">">>
      [] tag_type(code) = "float" -> <<"<", "f", "l", "o", "a", "t", ">">>
      [] tag_type(code) = "ustr" -> <<"<", "s", "t", "r", ">">>

ScalarRows(i) == {k \in VarsOf(i) : ~ VarAt(i, k).var.ispoint}

\* C4 (as claimed): the row of a header variable that is not a point shows the
\* variable's tag code in the code position, the type label of that code in
\* the type position and the escaped text of the value in the value position.
C4_HeaderRowShowsCode ==
    \A i \in HeaderRendered : \A k \in ScalarRows(i) :
        /\ CodeText(Row(i, k)) = IntToStr(VarAt(i, k).var.code)
        /\ TypeText(Row(i, k)) = escape(ClaimedLabel(VarAt(i, k).var.code))
        /\ ValueText(Row(i, k)) = escape(ustr(VarAt(i, k).var.value))

\* C4 (amended): the row of a header variable that is not a point shows the
\* variable's name, unescaped, in the code position, the escaped type label
\* of its tag code in the type position and the escaped text of the value in
\* the value position.
C4_HeaderRowShowsName ==
    \A i \in HeaderRendered : \A k \in ScalarRows(i) :
        /\ CodeText(Row(i, k)) = VarAt(i, k).name
        /\ TypeText(Row(i, k)) = escape(ClaimedLabel(VarAt(i, k).var.code))
        /\ ValueText(Row(i, k)) = escape(ustr(VarAt(i, k).var.value))

\* a state in which the case of C4 has been rendered
C4_Witness ==
    /\ pc = "done"
    /\ \E i \in HeaderRendered :
        /\ Len(dwg.sections[i].hdrvars) = 2
        /\ VarAt(i, 2) = [name |-> <<"$", "A">>, var |-> Scalar(1, StrValue(<<"A", "C">>))]
        /\ CodeText(Row(i, 2)) = <<"$", "A">>
        /\ TypeText(Row(i, 2)) = <<"&", "l", "t", ";", "s", "t", "r", "&", "g", "t", ";">>
        /\ ValueText(Row(i, 2)) = <<"A", "C">>

NavTargets(i) == AttrValues(SectionLines(i)[2], ATTR_HREF)

\* C5 (as claimed): the wrapper of section i holds a navigation strip of three
\* links, to the previous, the current and the next section anchor.
C5_ThreeLinkStrip ==
    \A i \in Rendered : NavTargets(i) = <<Anchor(i - 2), Anchor(i - 1), Anchor(i)>>

\* C5 (amended): the wrapper of section i holds a navigation strip of two
\* links, to the previous anchor "section_<i-1>" and the next anchor
\* "section_<i+1>" in this order, and carries the current anchor
\* "section_<i>" as its id; the first section's previous target is
\* "section_-1" and the last section's next target is "section_<N>", neither
\* of which is the id of a wrapper of the page.
C5_TwoLinkStrip ==
    /\ \A i \in Rendered :
        /\ NavTargets(i) = <<Anchor(i - 2), Anchor(i)>>
        /\ SectionId(i) = Anchor(i - 1)
    /\ pc = "done" /\ Len(dwg.sections) > 0 =>
        /\ NavTargets(1)[1] = <<"section_", "-", "1">>
        /\ NavTargets(Len(dwg.sections))[2] = Anchor(Len(dwg.sections))
        /\ \A j \in Rendered :
            /\ SectionId(j) # NavTargets(1)[1]
            /\ SectionId(j) # NavTargets(Len(dwg.sections))[2]

\* a state in which the case of C5 has been rendered
C5_Witness ==
    /\ pc = "done"
    /\ Len(dwg.sections) = 2
    /\ NavTargets(1) = <<<<"section_", "-", "1">>, <<"section_", "1">>>>
    /\ NavTargets(2) = <<<<"section_", "0">>, <<"section_", "2">>>>

StartsEntity(s, p) ==
    \/ SubSeq(s, p, p + 3) = <<"&", "l", "t", ";">>
    \/ SubSeq(s, p, p + 3) = <<"&", "g", "t", ";">>
    \/ SubSeq(s, p, p + 4) = <<"&", "a", "m", "p", ";">>

OnlyEscapedMarkup(s) ==
    \A p \in 1..Len(s) :
        /\ s[p] \notin {"<", ">"}
        /\ s[p] = "&" => StartsEntity(s, p)

TagRowsEscaped ==
    \A i \in DefaultRendered : \A k \in RowsOf(i) : OnlyEscapedMarkup(Row(i, k))

HeaderValuesEscaped ==
    \A i \in HeaderRendered : \A k \in VarsOf(i) :
        OnlyEscapedMarkup(TypeText(Row(i, k))) /\ OnlyEscapedMarkup(ValueText(Row(i, k)))

HeaderRowsEscaped ==
    \A i \in HeaderRendered : \A k \in VarsOf(i) : OnlyEscapedMarkup(Row(i, k))

\* C6: every free-text value of the drawing that is inserted into the page
\* (tag values, header-variable values, the codes and type labels of rows) has
\* its "<", ">" and "&" escaped: a row holds none of them as a literal
\* character (an "&" only as the start of "&lt;", "&gt;" or "&amp;").
C6_RowsOnlyEscapedMarkup == TagRowsEscaped /\ HeaderRowsEscaped

Unclassified(code) == tag_type(code) \notin {"int", "float", "ustr"}
Codes(tags) == {tags[k].code : k \in 1..Len(tags)}
EntityCodes(entities) == UNION {Codes(entities[k].tags) : k \in 1..Len(entities)}

ReachedCodes(section) ==
    CASE section.name = NAME_HEADER ->
             {section.hdrvars[k].var.code :
                  k \in {m \in 1..Len(section.hdrvars) : ~ section.hdrvars[m].var.ispoint}}
      [] section.name \in {NAME_CLASSES, NAME_OBJECTS, NAME_ENTITIES} ->
             EntityCodes(section.entities)
      [] section.name = NAME_TABLES ->
             UNION {Codes(section.tables[k].table_header)
                    \cup EntityCodes(section.tables[k].entries) : k \in 1..Len(section.tables)}
      [] section.name = NAME_BLOCKS ->
             UNION {Codes(section.blocks[k].block.tags)
                    \cup EntityCodes(section.blocks[k].entities)
                    \cup Codes(section.blocks[k].endblk.tags) : k \in 1..Len(section.blocks)}
      [] OTHER -> Codes(section.tags)

Malformed(section) == \E c \in ReachedCodes(section) : Unclassified(c)

\* C7: no classifier failure is caught.  A section in which a tag record the
\* traversal reaches, or a header variable that is not a point, has a code
\* whose type is none of int, float, string is never rendered: the KeyError
\* leaves dxf2html and no page is returned.  A point header variable never
\* asks the classifier.
C7_ClassifierFailurePropagates ==
    /\ \A i \in Rendered : ~ Malformed(dwg.sections[i])
    /\ page # <<>> => pc = "done" /\ \A i \in 1..Len(dwg.sections) : ~ Malformed(dwg.sections[i])
    /\ pc = "raised" =>
        /\ page = <<>>
        /\ Malformed(dwg.sections[index + 1]) => exc = "KeyError"
        /\ dwg.sections[index + 1].name = NAME_HEADER => Malformed(dwg.sections[index + 1])

\* a state in which the case of C7 has happened
C7_Witness ==
    /\ pc = "raised"
    /\ exc = "KeyError"
    /\ page = <<>>
    /\ index = 1
    /\ Len(sections_html) = 1
    /\ dwg.sections[2] = TablesSection(<<LAYER_TABLE, UNDEFINED_TABLE>>)

RowCodeText(row) ==
    IF Count(row, SPAN_CODE) > 0 THEN After(row, SPAN_CODE, {SPAN_TYPE, " "})
    ELSE After(row, CLASS_CODE, {SPAN_TYPE})
RowValueText(row) ==
    IF Count(row, SPAN_VALUE) > 0 THEN After(row, SPAN_VALUE, {ROW_CLOSE})
    ELSE After(row, QUOTE_GT, {LINK_CLOSE})

\* C8: tags2html emits one row per tag record, in input order; a row is
\* wrapped in a tag-group-marker container exactly when its code is a
\* group-marker code (0, 100, 102, 1001), and a container holds one row.
C8_OneRowPerTag ==
    \A i \in DefaultRendered :
        /\ Count(sections_html[i], ROW_OPEN) = Len(dwg.sections[i].tags)
        /\ Len(SectionLines(i))
               = 6 + (IF dwg.sections[i].tags = <<>> THEN 1 ELSE Len(dwg.sections[i].tags))
        /\ \A k \in RowsOf(i) :
            /\ Count(Row(i, k), ROW_OPEN) = 1
            /\ RowCodeText(Row(i, k)) = IntToStr(TagAt(i, k).code)
            /\ RowValueText(Row(i, k)) = EscapedValue(TagAt(i, k))
            /\ IF TagAt(i, k).code \in ClaimedMarkerCodes
               THEN /\ Count(Row(i, k), MARKER_OPEN) = 1
                    /\ Row(i, k)[1] = MARKER_OPEN
                    /\ Row(i, k)[2] = ROW_OPEN
                    /\ Row(i, k)[Len(Row(i, k))] = DIV_CLOSE
               ELSE /\ Count(Row(i, k), MARKER_OPEN) = 0
                    /\ Row(i, k)[1] = ROW_OPEN

\* a state in which the case of C8 has been rendered
C8_Witness ==
    /\ pc = "done"
    /\ \E i \in DefaultRendered :
        /\ dwg.sections[i].tags = <<Tag(1001, StrValue(HANDLE_1F)), Tag(1, IntValue(7))>>
        /\ Row(i, 1)[1] = MARKER_OPEN
        /\ Row(i, 2)[1] = ROW_OPEN
        /\ RowValueText(Row(i, 2)) = <<"7">>

HeadingsAt(s, p) == [k \in 1..Len(p) |-> <<s[p[k]], Until(s, p[k] + 1, {H2_CLOSE, H3_CLOSE})>>]
Headings(s) ==
    HeadingsAt(s, SelectSeq([i \in 1..Len(s) |-> i], LAMBDA i : s[i] \in {H2_OPEN, H3_OPEN}))

ClaimedBlockHeadings(b) ==
    <<<<H2_OPEN, b.name>>, <<H3_OPEN, b.block.dxftype>>>>
    \o [k \in 1..Len(b.entities) |-> <<H3_OPEN, b.entities[k].dxftype>>]
    \o <<<<H3_OPEN, b.endblk.dxftype>>>>

BlocksRendered == {i \in Rendered : dwg.sections[i].name = NAME_BLOCKS}

\* C9: block2html renders one block titled with the block's name that holds
\* the start entity, then the contained entities in their order, then the end
\* entity; blocks2html puts the blocks in the section's block order.
C9_BlockOrder ==
    \A i \in BlocksRendered :
        /\ Count(sections_html[i], BLOCK_OPEN) = Len(dwg.sections[i].blocks)
        /\ Headings(sections_html[i])
               = Flatten([b \in 1..Len(dwg.sections[i].blocks) |->
                              ClaimedBlockHeadings(dwg.sections[i].blocks[b])])

\* a state in which the case of C9 has been rendered
C9_Witness ==
    /\ pc = "done"
    /\ \E i \in BlocksRendered :
        /\ dwg.sections[i].blocks = <<BlockLayout(<<"b">>, BLOCK, <<>>, ENDBLK),
                                      BlockLayout(<<"a">>, BLOCK, <<CIRCLE, LINE>>, ENDBLK)>>
        /\ Headings(sections_html[i])
               = <<<<H2_OPEN, <<"b">>>>, <<H3_OPEN, BLOCK.dxftype>>, <<H3_OPEN, ENDBLK.dxftype>>,
                   <<H2_OPEN, <<"a">>>>, <<H3_OPEN, BLOCK.dxftype>>, <<H3_OPEN, CIRCLE.dxftype>>,
                   <<H3_OPEN, LINE.dxftype>>, <<H3_OPEN, ENDBLK.dxftype>>>>

AllCodes == 0..MaxCode

CodeClassesAsClaimed ==
    /\ HANDLE_DEFINITIONS \cap AllCodes = ClaimedDefinitionCodes
    /\ HANDLE_LINKS \cap AllCodes = ClaimedLinkCodes
    /\ GROUP_MARKERS \cap AllCodes = ClaimedMarkerCodes
    /\ HANDLE_DEFINITIONS \cap HANDLE_LINKS = {}
    /\ HANDLE_DEFINITIONS \cap GROUP_MARKERS = {}
    /\ HANDLE_LINKS \cap GROUP_MARKERS = {}

\* tag2html with its two checks in the other order
LinkCheckedFirst(code) ==
    IF code \in HANDLE_LINKS THEN "TAG_TEMPLATE_HANDLE_LINK"
    ELSE IF code \in HANDLE_DEFINITIONS THEN "TAG_TEMPLATE_HANDLE_DEF"
    ELSE "TAG_TEMPLATE"

\* C10: the handle-definition codes (5, 105, 320..329), the handle-link codes
\* (330..369, 480, 481, 1005) and the group-marker codes (0, 100, 102, 1001)
\* are pairwise disjoint, so the template of a row does not depend on the
\* order of the checks of tag2html and a group-marker row is never a handle
\* row.
C10_CodeClassesDisjoint ==
    /\ CodeClassesAsClaimed
    /\ \A i \in DefaultRendered : \A k \in RowsOf(i) :
        /\ tag_tpl(TagAt(i, k).code) = LinkCheckedFirst(TagAt(i, k).code)
        /\ Count(Row(i, k), MARKER_OPEN) > 0 =>
               Count(Row(i, k), ATTR_ID) = 0 /\ Count(Row(i, k), ATTR_HREF) = 0
        /\ Count(Row(i, k), ATTR_ID) + Count(Row(i, k), ATTR_HREF) <= 1

\* a state in which the case of C10 has been rendered
C10_Witness ==
    /\ pc = "done"
    /\ \E i \in DefaultRendered :
        /\ Codes(dwg.sections[i].tags) = {1001, 1005}
        /\ Count(sections_html[i], MARKER_OPEN) = 1
        /\ Count(sections_html[i], ATTR_HREF) = 3

====
